---- MODULE Spec2Model ----
(***************************************************************************)
(* The streaming sessions of the tensorpool CLI:                           *)
(*   _ws_operation_async  (helpers.py 879-996)  cluster / NFS / job cancel *)
(*                                              and job listen sessions    *)
(*   _job_push_async      (helpers.py 364-537)  the job push session       *)
(* One behaviour of the model is one session of one of the two functions.  *)
(* Every `await` of the source (connect, send, recv) is the start of one   *)
(* action; the synchronous code that follows it up to the next await is    *)
(* part of that action.  The server and the transport are the environment: *)
(* the inbound frame of a recv, the line typed at a prompt, the result of  *)
(* a local command and the exception raised at an await are drawn from     *)
(* small sets.                                                             *)
(***************************************************************************)
EXTENDS Integers, Sequences, FiniteSets, TLC

\* Number of inbound frames the server sends in one session.
MaxFrames == 2

(***************************************************************************)
(* Values.  Absent marks a key that a JSON object does not carry, None is  *)
(* Python's None (JSON null), Unbound a local variable that was never      *)
(* assigned.                                                               *)
(***************************************************************************)
Absent == "<absent>"
None == "<None>"
Unbound == "<unbound>"

\* bool(v) of Python for the values of the model
Truthy(v) == v \notin {Absent, None, Unbound, ""}

\* dict.get(key): None when the key is absent
Get(v) == IF v = Absent THEN None ELSE v

\* x or y
Or(x, y) == IF Truthy(x) THEN x ELSE y

\* JSON true
JsonTrue == "true"

Statuses == {Absent, "success", "error", "input", "pending"}
Messages == {Absent, "", "m1"}
JobIds == {Absent, "", "j1", "j2"}
Commands == {Absent, None, "", "c1"}

\* The inbound text frames: one that is not JSON, two that are JSON but not
\* objects (an array and null), and the JSON objects over the recognized keys
\* (command_show_stdout is read only with a command).
BadFrame == [kind |-> "text"]
ArrayFrame == [kind |-> "array"]
NullFrame == [kind |-> "null"]
JsonFrames(statuses, job_ids, commands) ==
    { f \in [kind : {"json"}, status : statuses, message : Messages,
             job_id : job_ids, command : commands,
             command_show_stdout : {Absent, JsonTrue}] :
        f.command_show_stdout = JsonTrue => Truthy(f.command) }

\* What the engine sends on the endpoints of _ws_operation_async: every
\* status, and frames with and without a job_id and a command.
WsFrames ==
    {BadFrame, ArrayFrame, NullFrame}
        \cup JsonFrames(Statuses, {Absent, "j1"}, {Absent, "c1"})

\* What the engine sends on /job/push: every job_id and command, and frames
\* without a status or with a terminal one.
JpFrames ==
    {BadFrame, ArrayFrame, NullFrame}
        \cup JsonFrames({Absent, "success", "error"}, JobIds, Commands)
NoFrame == [kind |-> "none"]

\* The lines a user types at a prompt; EOF is input() raising EOFError.
EOF == "<EOF>"
Lines == {"y", ""}

\* Close codes and reasons of a ConnectionClosed exception.
NormalClosure == 1000
AbnormalClosure == 1006
\* An abnormal closure is a connection lost without a close frame: it has no
\* reason text.
CloseCodes == {NormalClosure, AbnormalClosure, 1011}
CloseReasons(code) == IF code = AbnormalClosure THEN {""} ELSE {"", "bye"}

\* The payload argument of _ws_operation_async: None, {} or an object.
Payloads == {None, "{}", "{spec}"}

\* Outcomes of a local command: Popen raising (error is str(e)), or an exit
\* code with the output.  stdout and stderr are what the reader threads had
\* appended when the joins of 480-481 returned (each one line, or empty);
\* late is a line of stdout that read_stdout reads only after its join timed
\* out, with the pipe still open or the reader still behind.
ExecResults ==
    { [raised |-> TRUE, returncode |-> 1, stdout |-> "", stderr |-> "",
       late |-> "", error |-> "OSError"],
      [raised |-> FALSE, returncode |-> 0, stdout |-> "out", stderr |-> "",
       late |-> "", error |-> ""],
      [raised |-> FALSE, returncode |-> 1, stdout |-> "out", stderr |-> "err",
       late |-> "", error |-> ""],
      [raised |-> FALSE, returncode |-> 1, stdout |-> "out", stderr |-> "err",
       late |-> "tail", error |-> ""] }

VARIABLES
    impl,               \* "ws" = _ws_operation_async, "jp" = _job_push_async
    api_key,            \* get_tensorpool_key() / the api_key argument
    payload,            \* payload argument (ws) / initial_data (jp)
    handle_user_input,  \* handle_user_input argument (ws)
    spinner,            \* the Spinner argument (ws): kind, spinning, text
    pc,                 \* position of the coroutine
    pending,            \* frame built and about to be sent at pc = "send"
    status,             \* local status (ws)
    msg,                \* local msg (ws)
    close,              \* <<close_code, close_reason>> (ws), <<>> = None
    job_id,             \* local job_id (jp)
    stderr,             \* local stderr (jp)
    outcome,            \* the returned tuple, NoOutcome while running
    printed,            \* lines printed by the termination handlers (jp)
                        \* and by safe_input / safe_confirm
    no_input,           \* the no_input argument of the caller
    endpoint,           \* the endpoint the caller passes, in pieces
    default_arg,        \* the default argument of safe_input / safe_confirm
    stdin_isatty,       \* sys.stdin.isatty()
    result,             \* what safe_input / safe_confirm came to, and the
                        \* output a finished command is reported with
    process,            \* the local command: what it has yet to write, its pipes
    reader,             \* the threads read_stdout and read_stderr
    lines,              \* stdout_lines and stderr_lines
    keepalive,          \* the keepalive of the connection and the clock
    fs,                 \* the local files that exist
    download,           \* where each _download_file call stands
    hist                \* history of the session, for stating properties

vars == <<impl, api_key, payload, handle_user_input, spinner, pc,
          pending, status, msg, close, job_id, stderr, outcome, printed,
          no_input, endpoint, default_arg, stdin_isatty, result,
          process, reader, lines, keepalive, fs, download, hist>>

config == <<impl, api_key, payload, handle_user_input,
            no_input, endpoint, default_arg, stdin_isatty>>

NoResult == [kind |-> "none", value |-> None]

\* The parts of the program a session is looked at without: the pipes of a
\* command, the keepalive, the downloads.
elsewhere == <<process, reader, lines, keepalive, fs, download>>
NoPipes == [stdout |-> <<>>, stderr |-> <<>>]
NoProcess == [todo |-> <<>>, background |-> FALSE, exited |-> FALSE,
              pipe |-> NoPipes]
NoReaders == [stdout |-> "none", stderr |-> "none"]
NoKeepalive == [now |-> 0]
NoElsewhere ==
    /\ process = NoProcess /\ reader = NoReaders /\ lines = NoPipes
    /\ keepalive = NoKeepalive /\ fs = {} /\ download = <<>>

\* A returned tuple without a message (jp) or without a job id (ws) holds
\* NoMessage or Absent in that place.
NoMessage == <<Absent>>
NoSent == [type |-> "none"]
NoOutcome == [success |-> None, message |-> NoMessage, job_id |-> Absent]
NoSpinner == [kind |-> "none", spinning |-> FALSE, text |-> ""]

NoHist ==
    [nsent |-> 0,            \* frames sent on the WebSocket
     head |-> <<>>,          \* the first two frames sent, in order
     last |-> NoSent,        \* the last frame sent
     nrecv |-> 0,            \* inbound frames received
     frame |-> NoFrame,      \* the last inbound frame
     sentBefore |-> 0,       \* frames sent when the last frame was received
     reads |-> 0,            \* terminal reads made for the last frame
     line |-> None,          \* what the last terminal read returned
     shown |-> "none",       \* how the last frame's message was displayed
     exec |-> <<>>,          \* <<result>> of the last frame's command, if run
     term |-> [stdout |-> <<>>, stderr |-> <<>>],
                             \* what the last frame's command wrote on the terminal
     conn |-> 0,             \* calls of websockets.connect
     firstJobId |-> Absent,  \* job_id of the first frame carrying one
     firstTruthyJobId |-> Absent, \* the first non-empty job_id received
     sawError |-> FALSE,     \* a frame with status "error" was received
     termBefore |-> FALSE,   \* a frame before the last had status success/error
     infoOnly |-> TRUE,      \* all frames before the last carried only a message
     endedBy |-> "none",     \* the path that ended the session
     closed |-> <<>>]        \* <<code, reason>> of the ConnectionClosed raised

(***************************************************************************)
(* Outbound frames                                                         *)
(***************************************************************************)
AuthFrame(key) == [type |-> "auth", TENSORPOOL_KEY |-> key]
PayloadFrame(p) == [type |-> "payload", body |-> p]
InputResponse(line) == [type |-> "input_response", response |-> line]
CommandResult(command, returncode, out, err) ==
    [type |-> "command_result", command |-> command, exit_code |-> returncode,
     command_stdout |-> out, command_stderr |-> err]

(***************************************************************************)
(* Text.  A message is the sequence of the pieces an f-string or a `+`     *)
(* joins; the empty string is the empty sequence.                          *)
(***************************************************************************)
Str(s) == IF s = "" THEN <<>> ELSE <<s>>

success_message == "Operation completed successfully"
error_message == "Operation failed"
unexpected_end_message == "Connection ended unexpectedly"

Outcome(ok, message, jid) == [success |-> ok, message |-> message, job_id |-> jid]

(***************************************************************************)
(* Spinner (spinner.py).  kind "none" is spinner=None; "tty" and "notty"   *)
(* are a Spinner whose stream is, or is not, a terminal.                   *)
(***************************************************************************)
Spinner_start(sp) ==
    IF sp.kind # "tty" THEN sp ELSE [sp EXCEPT !.spinning = TRUE]

Spinner_update_text(sp, new_text) == [sp EXCEPT !.text = new_text]

Spinner_pause(sp) ==
    IF ~sp.spinning THEN sp ELSE [sp EXCEPT !.spinning = FALSE]

Spinner_resume(sp) ==
    IF sp.spinning \/ sp.kind # "tty" THEN sp ELSE [sp EXCEPT !.spinning = TRUE]

(***************************************************************************)
(* History bookkeeping shared by the two recv actions.                     *)
(***************************************************************************)
IsJson(f) == f.kind = "json"

IsInfo(f) ==
    /\ IsJson(f)
    /\ f.message # Absent
    /\ f.status = Absent /\ f.job_id = Absent /\ f.command = Absent

IsTerminalFrame(f) == IsJson(f) /\ f.status \in {"success", "error"}

\* websocket.send(frame) as the history sees it
HistSend(h, frame) ==
    [h EXCEPT
        !.nsent = @ + 1,
        !.head = IF Len(@) < 2 THEN Append(@, frame) ELSE @,
        !.last = frame]

HistRecv(h, f) ==
    [h EXCEPT
        !.nrecv = @ + 1,
        !.frame = f,
        !.sentBefore = h.nsent,
        !.reads = 0,
        !.line = None,
        !.shown = "none",
        !.exec = <<>>,
        !.term = [stdout |-> <<>>, stderr |-> <<>>],
        !.firstJobId =
            IF @ = Absent /\ IsJson(f) THEN f.job_id ELSE @,
        !.firstTruthyJobId =
            IF @ = Absent /\ IsJson(f) /\ Truthy(f.job_id) THEN f.job_id ELSE @,
        !.sawError = @ \/ (IsJson(f) /\ f.status = "error"),
        !.termBefore = @ \/ IsTerminalFrame(h.frame),
        !.infoOnly = @ /\ (h.frame = NoFrame \/ IsInfo(h.frame))]

\* a JSON object without any of the recognized keys
EmptyObject ==
    [kind |-> "json", status |-> Absent, message |-> Absent, job_id |-> Absent,
     command |-> Absent, command_show_stdout |-> Absent]

\* a decoder that turns a non-JSON frame into an empty object
json_loads_lenient(f) ==
    [ok |-> TRUE, data |-> IF f.kind # "text" THEN f ELSE EmptyObject]

\* json.loads(message): the decoded value, or JSONDecodeError
json_loads(f) == [ok |-> f.kind # "text", data |-> f]

(***************************************************************************)
(* _ws_operation_async                                                     *)
(***************************************************************************)
\* 903-905: the API key check before anything is opened
ws_has_key(key) == Truthy(key)

\* the payload test written as `if payload:`
ws_sends_payload_if_truthy(p) == p \notin {None, "{}"}

\* 924: `if payload is not None`
ws_sends_payload(p) == p # None

\* 932: `data.get` exists on a dict only; a list or None raises AttributeError
ws_get_raises(data) == data.kind # "json"

\* a status that a frame without a status key leaves as it was
ws_status_kept(cur, data) == IF data.status = Absent THEN cur ELSE data.status

\* 932: `status = data.get("status")`, whatever status was before
ws_status(cur, data) == Get(data.status)

\* the input branch taken whatever handle_user_input says
ws_is_input_request_always(handle, st) == st = "input"

\* 935: `if handle_user_input and status == "input"`
ws_is_input_request(handle, st) == handle /\ st = "input"

\* a loop that displays no message
ws_displays_nothing(m) == FALSE

\* 955: `if msg`
ws_displays(m) == Truthy(m)

\* the break taken on every status but "input"
ws_breaks_on_any_status(st) == st \notin {None, "input"}

\* the break taken on success only
ws_breaks_on_success_only(st) == st = "success"

\* 962: `if status in ["success", "error"]`
ws_breaks(st) == st \in {"success", "error"}

\* the response with an empty line replaced by a default answer
ws_input_response_defaulted(line) == InputResponse(Or(line, "y"))

\* 952: the InputResponse built from the line read
ws_input_response(line) == InputResponse(line)

\* 1006 let through like a normal closure
ws_close_passes_1006_too(code) == code \in {NormalClosure, AbnormalClosure}

\* 968: `if e.code == 1000: pass`, else return the failure of 972-975
ws_close_passes(code) == code = NormalClosure

\* the failure text without the reason
ws_closed_message_code_only(code, reason) ==
    <<"Connection closed: code=", ToString(code)>>

\* 972-975
ws_closed_message(code, reason) ==
    <<"Connection closed: code=", ToString(code), ", reason=">>
        \o Str(Or(reason, "No reason provided"))

\* the handler returning a failure that says nothing
ws_websocket_error_silent(text) == Outcome(FALSE, <<>>, Absent)

\* 978 and 981
ws_websocket_error(text) == Outcome(FALSE, <<"WebSocket error: ", text>>, Absent)
ws_unexpected_error(text) == Outcome(FALSE, <<"Unexpected error: ", text>>, Absent)

\* the default returned whatever the server said
ws_message_or_default_only(m, default) == Str(default)

\* 985 and 988: `msg or success_message`, `msg or error_message`
ws_message_or(m, default) == Str(Or(m, default))

\* the return without the `if spinner else ""` of 985 and 988
ws_final_keeps_message(st, m, sp, cl) ==
    IF st = "success" THEN Outcome(TRUE, ws_message_or(m, success_message), Absent)
    ELSE IF st = "error" THEN Outcome(FALSE, ws_message_or(m, error_message), Absent)
    ELSE Outcome(FALSE, <<unexpected_end_message>>, Absent)

\* 983-996: the return after the try statement
ws_final(st, m, sp, cl) ==
    IF st = "success"
    THEN Outcome(TRUE,
                 IF sp.kind # "none" THEN ws_message_or(m, success_message) ELSE <<>>,
                 Absent)
    ELSE IF st = "error"
    THEN Outcome(FALSE,
                 IF sp.kind # "none" THEN ws_message_or(m, error_message) ELSE <<>>,
                 Absent)
    ELSE Outcome(FALSE,
                 <<unexpected_end_message>> \o
                 (IF cl # <<>>
                  THEN <<"\nClose code: ", ToString(cl[1])>> \o
                       (IF Truthy(cl[2]) THEN <<", reason: ", cl[2]>> ELSE <<>>)
                  ELSE <<>>),
                 Absent)

\* the handler starting the session over after an abnormal closure
ws_closed_goto_reconnect(code) ==
    IF code = AbnormalClosure THEN "connect" ELSE "done"

\* 965-975: every path of the handler leaves the try statement, by the return
\* of 972 or through `pass` to the return of 983-996
ws_closed_goto(code) == "done"

ws_unchanged == UNCHANGED <<config, job_id, stderr, printed, result, elsewhere>>

\* 903-905
ws_start ==
    /\ impl = "ws" /\ pc = "start"
    /\ IF ws_has_key(api_key)
       THEN /\ pc' = "connect"
            /\ UNCHANGED <<outcome, hist>>
       ELSE /\ pc' = "done"
            /\ outcome' = Outcome(FALSE,
                   <<"TENSORPOOL_KEY not found. Please set your API key.">>, Absent)
            /\ hist' = [hist EXCEPT !.endedBy = "no_key"]
    /\ UNCHANGED <<spinner, pending, status, msg, close>>
    /\ ws_unchanged

\* 917-919: the connection is open
ws_connect ==
    /\ impl = "ws" /\ pc = "connect"
    /\ pc' = "auth"
    /\ hist' = [hist EXCEPT !.conn = @ + 1]
    /\ UNCHANGED <<spinner, pending, status, msg, close, outcome>>
    /\ ws_unchanged

\* 921-924
ws_send_auth ==
    /\ impl = "ws" /\ pc = "auth"
    /\ hist' = HistSend(hist, AuthFrame(api_key))
    /\ pc' = IF ws_sends_payload(payload) THEN "payload" ELSE "recv"
    /\ UNCHANGED <<spinner, pending, status, msg, close, outcome>>
    /\ ws_unchanged

\* 925
ws_send_payload ==
    /\ impl = "ws" /\ pc = "payload"
    /\ hist' = HistSend(hist, PayloadFrame(payload))
    /\ pc' = "recv"
    /\ UNCHANGED <<spinner, pending, status, msg, close, outcome>>
    /\ ws_unchanged

\* 929-963: one frame, up to the next await or the return
ws_recv ==
    /\ impl = "ws" /\ pc = "recv"
    /\ hist.nrecv < MaxFrames
    /\ \E f \in WsFrames :
        LET r == json_loads(f)
            h == HistRecv(hist, f)
            st == ws_status(status, r.data)
            m == Get(r.data.message)
        IN  IF ~r.ok
            THEN \* 980-981
                 /\ pc' = "done"
                 /\ outcome' = ws_unexpected_error("JSONDecodeError")
                 /\ hist' = [h EXCEPT !.endedBy = "exception"]
                 /\ UNCHANGED <<spinner, pending, status, msg>>
            ELSE IF ws_get_raises(r.data)
            THEN \* 932 raises: 980-981
                 /\ pc' = "done"
                 /\ outcome' = ws_unexpected_error("AttributeError")
                 /\ hist' = [h EXCEPT !.endedBy = "exception"]
                 /\ UNCHANGED <<spinner, pending, status, msg>>
            ELSE IF ws_is_input_request(handle_user_input, st)
            THEN \* 936-953
                 /\ status' = st
                 /\ msg' = m
                 /\ \E typed \in Lines \cup {EOF} :
                    IF typed = EOF
                    THEN \* input() raises EOFError: 980-981
                         /\ spinner' = Spinner_pause(spinner)
                         /\ pc' = "done"
                         /\ outcome' = ws_unexpected_error("EOFError")
                         /\ hist' = [h EXCEPT !.reads = 1, !.line = EOF,
                                              !.endedBy = "exception"]
                         /\ UNCHANGED pending
                    ELSE /\ spinner' = Spinner_resume(Spinner_pause(spinner))
                         /\ pending' = ws_input_response(typed)
                         /\ pc' = "send"
                         /\ hist' = [h EXCEPT !.reads = 1, !.line = typed]
                         /\ UNCHANGED outcome
            ELSE \* 955-963
                 /\ status' = st
                 /\ msg' = m
                 /\ spinner' = IF ws_displays(m) /\ spinner.kind # "none"
                                THEN Spinner_update_text(spinner, m)
                                ELSE spinner
                 /\ LET h2 == [h EXCEPT !.shown =
                                   IF ~ws_displays(m) THEN "none"
                                   ELSE IF spinner.kind # "none" THEN "spinner"
                                   ELSE "print"]
                    IN  IF ws_breaks(st)
                        THEN /\ pc' = "done"
                             /\ outcome' = ws_final(st, m, spinner', close)
                             /\ hist' = [h2 EXCEPT !.endedBy = "break"]
                        ELSE /\ pc' = "recv"
                             /\ hist' = h2
                             /\ UNCHANGED outcome
                 /\ UNCHANGED pending
    /\ UNCHANGED close
    /\ ws_unchanged

\* 952-953: the InputResponse goes out and the loop continues
ws_send_response ==
    /\ impl = "ws" /\ pc = "send"
    /\ hist' = HistSend(hist, pending)
    /\ pending' = NoSent
    /\ pc' = "recv"
    /\ UNCHANGED <<spinner, status, msg, close, outcome>>
    /\ ws_unchanged

\* 965-975, then 983-996: an await raises ConnectionClosed
ws_connection_closed ==
    /\ impl = "ws" /\ pc \in {"auth", "payload", "recv", "send"}
    /\ \E code \in CloseCodes : \E reason \in CloseReasons(code) :
        /\ close' = <<code, reason>>
        /\ outcome' = IF ws_close_passes(code)
                      THEN ws_final(status, msg, spinner, close')
                      ELSE Outcome(FALSE, ws_closed_message(code, reason), Absent)
        /\ hist' = [hist EXCEPT !.endedBy = "closed", !.closed = <<code, reason>>]
        /\ pc' = ws_closed_goto(code)
    /\ UNCHANGED <<spinner, pending, status, msg>>
    /\ ws_unchanged

\* 977-978: connect or an await raises another WebSocketException
ws_websocket_exception ==
    /\ impl = "ws" /\ pc \in {"connect", "auth", "payload", "recv", "send"}
    /\ outcome' = ws_websocket_error("WebSocketException")
    /\ hist' = [hist EXCEPT !.endedBy = "websocket_exception",
                            !.conn = IF pc = "connect" THEN @ + 1 ELSE @]
    /\ pc' = "done"
    /\ UNCHANGED <<spinner, pending, status, msg, close>>
    /\ ws_unchanged

\* 980-981: connect raises OSError
ws_exception ==
    /\ impl = "ws" /\ pc = "connect"
    /\ outcome' = ws_unexpected_error("OSError")
    /\ hist' = [hist EXCEPT !.endedBy = "exception", !.conn = @ + 1]
    /\ pc' = "done"
    /\ UNCHANGED <<spinner, pending, status, msg, close>>
    /\ ws_unchanged


(***************************************************************************)
(* _job_push_async                                                         *)
(***************************************************************************)
\* 386-392: the job configuration sent as the second frame
initial_data == "{initial_data}"

\* the capture without its `not job_id` guard
jp_capture_job_id_always(cur, data) ==
    IF data.job_id # Absent THEN data.job_id ELSE cur

\* 403-404: `if "job_id" in data and not job_id: job_id = data["job_id"]`
jp_capture_job_id(cur, data) ==
    IF data.job_id # Absent /\ ~Truthy(cur) THEN data.job_id ELSE cur

\* 403: `"job_id" in data` raises TypeError when data is None
jp_in_raises(data) == data.kind = "null"

\* 403-411: an array holds none of the keys the `in` tests look for
jp_keys(data) == IF data.kind = "array" THEN EmptyObject ELSE data

\* the message printed only when the frame has no command
jp_prints_message_unless_command(data) ==
    data.message # Absent /\ data.command = Absent

\* 407: `if "message" in data`
jp_prints_message(data) == data.message # Absent

\* 411: `if "command" in data`
jp_has_command(data) == data.command # Absent

\* the skip written as `if command is None`
jp_skips_null_only(command) == command = None

\* the skip of an empty command left out
jp_skips_nothing(command) == FALSE

\* 413-415: `if not command: continue`
jp_skips_command(command) == ~Truthy(command)

\* 417: data.get("command_show_stdout", False)
jp_show_stdout(data) == data.command_show_stdout = JsonTrue

\* 483-484 and 493-496: the stderr local after the try statement
jp_stderr_after(cur, r) == IF r.raised THEN cur ELSE r.stderr

\* 451-453 and 462-466: a reader thread mirrors the line it has read
jp_live(show_stdout, text) ==
    IF show_stdout /\ text # "" THEN << <<"", text>> >> ELSE <<>>

\* the summary printed after every failing command
jp_prints_after_any_failure(show_stdout, r) ==
    IF r.returncode # 0
    THEN (IF Truthy(r.stderr) THEN << <<"Command error: ", r.stderr>> >> ELSE <<>>)
         \o (IF Truthy(r.stdout) THEN << <<"Command output: ", r.stdout>> >> ELSE <<>>)
    ELSE <<>>

\* 487-491: `if returncode != 0 and not show_stdout`
jp_prints_after(show_stdout, r) ==
    IF r.returncode # 0 /\ ~show_stdout
    THEN (IF Truthy(r.stderr) THEN << <<"Command error: ", r.stderr>> >> ELSE <<>>)
         \o (IF Truthy(r.stdout) THEN << <<"Command output: ", r.stdout>> >> ELSE <<>>)
    ELSE <<>>

\* 444-496: what running the command writes on sys.stdout and sys.stderr;
\* read_stdout goes on mirroring after the joins have returned
jp_terminal(show_stdout, r) ==
    IF r.raised
    THEN [stdout |-> << <<"Failed to execute command: ", r.error>> >>,
          stderr |-> <<>>]
    ELSE [stdout |-> jp_live(show_stdout, r.stdout)
                        \o jp_prints_after(show_stdout, r)
                        \o jp_live(show_stdout, r.late),
          stderr |-> jp_live(show_stdout, r.stderr)]

\* 502-508: the response built from the locals
jp_response(command, r, err) ==
    CommandResult(command, r.returncode, IF r.raised THEN "" ELSE r.stdout, err)

\* 513
jp_close_is_normal(code) == code = NormalClosure

\* the abnormal-closure branch keyed on the wrong code
jp_close_is_abnormal_1005(code) == code = 1005

\* 517
jp_close_is_abnormal(code) == code = AbnormalClosure

\* 511-526: what the ConnectionClosed handler prints
jp_closed_prints(code, reason) ==
    IF jp_close_is_normal(code) THEN <<>>
    ELSE IF jp_close_is_abnormal(code)
    THEN << <<"Connection lost", " during job submission.">>,
            <<"Check job status with ", "tp job list",
              ". Job likely has to be resubmitted.">> >>
    ELSE << <<"Job connection closed, code = ", ToString(code)>> >>
         \o (IF Truthy(reason) THEN << <<reason>> >> ELSE <<>>)

\* the handler returning None for the job id, as the other handlers do
jp_closed_outcome_without_job_id(code, jid) ==
    Outcome(jp_close_is_normal(code), NoMessage, None)

\* 511-526: what the ConnectionClosed handler returns
jp_closed_outcome(code, jid) ==
    Outcome(jp_close_is_normal(code), NoMessage, jid)

jp_unchanged == UNCHANGED <<config, spinner, status, msg, close, result, elsewhere>>

\* 379-381: the connection is open
jp_connect ==
    /\ impl = "jp" /\ pc = "connect"
    /\ pc' = "auth"
    /\ hist' = [hist EXCEPT !.conn = @ + 1]
    /\ UNCHANGED <<pending, job_id, stderr, outcome, printed>>
    /\ jp_unchanged

\* 383
jp_send_auth ==
    /\ impl = "jp" /\ pc = "auth"
    /\ hist' = HistSend(hist, AuthFrame(api_key))
    /\ pc' = "payload"
    /\ UNCHANGED <<pending, job_id, stderr, outcome, printed>>
    /\ jp_unchanged

\* 386-394
jp_send_payload ==
    /\ impl = "jp" /\ pc = "payload"
    /\ hist' = HistSend(hist, PayloadFrame(payload))
    /\ pc' = "recv"
    /\ UNCHANGED <<pending, job_id, stderr, outcome, printed>>
    /\ jp_unchanged

\* 398-508: one frame, up to the next await or the return
jp_recv ==
    /\ impl = "jp" /\ pc = "recv"
    /\ hist.nrecv < MaxFrames
    /\ \E f \in JpFrames :
        LET r == json_loads(f)
            data == jp_keys(r.data)
            h == HistRecv(hist, f)
            h1 == [h EXCEPT !.shown =
                      IF jp_prints_message(data) THEN "print" ELSE "none"]
        IN  IF ~r.ok \/ jp_in_raises(r.data)
            THEN \* 532-534
                 /\ pc' = "done"
                 /\ outcome' = Outcome(FALSE, NoMessage, None)
                 /\ printed' = << <<"Unexpected error: ",
                                    IF r.ok THEN "TypeError" ELSE "JSONDecodeError">> >>
                 /\ hist' = [h EXCEPT !.endedBy = "exception"]
                 /\ UNCHANGED <<pending, job_id, stderr>>
            ELSE /\ job_id' = jp_capture_job_id(job_id, data)
                 /\ IF ~jp_has_command(data) \/ jp_skips_command(data.command)
                    THEN \* back to recv
                         /\ pc' = "recv"
                         /\ hist' = h1
                         /\ UNCHANGED <<pending, stderr, outcome, printed>>
                    ELSE \* 417-508
                         \E x \in ExecResults :
                            LET h2 == [h1 EXCEPT
                                         !.exec = <<x>>,
                                         !.term = jp_terminal(jp_show_stdout(data), x)]
                            IN  /\ stderr' = jp_stderr_after(stderr, x)
                                /\ IF stderr' = Unbound
                                   THEN \* building the response raises: 532-534
                                        /\ pc' = "done"
                                        /\ outcome' = Outcome(FALSE, NoMessage, None)
                                        /\ printed' = << <<"Unexpected error: ",
                                                           "UnboundLocalError">> >>
                                        /\ hist' = [h2 EXCEPT !.endedBy = "exception"]
                                        /\ UNCHANGED pending
                                   ELSE /\ pending' = jp_response(data.command, x, stderr')
                                        /\ pc' = "send"
                                        /\ hist' = h2
                                        /\ UNCHANGED <<outcome, printed>>
    /\ jp_unchanged

\* 509: the CommandResult goes out and the loop continues
jp_send_result ==
    /\ impl = "jp" /\ pc = "send"
    /\ hist' = HistSend(hist, pending)
    /\ pending' = NoSent
    /\ pc' = "recv"
    /\ UNCHANGED <<job_id, stderr, outcome, printed>>
    /\ jp_unchanged

\* 511-526: an await raises ConnectionClosed
jp_connection_closed ==
    /\ impl = "jp" /\ pc \in {"auth", "payload", "recv", "send"}
    /\ \E code \in CloseCodes : \E reason \in CloseReasons(code) :
        /\ outcome' = jp_closed_outcome(code, job_id)
        /\ printed' = jp_closed_prints(code, reason)
        /\ hist' = [hist EXCEPT !.endedBy = "closed", !.closed = <<code, reason>>]
    /\ pc' = "done"
    /\ UNCHANGED <<pending, job_id, stderr>>
    /\ jp_unchanged

\* 528-530: connect or an await raises another WebSocketException
jp_websocket_exception ==
    /\ impl = "jp" /\ pc \in {"connect", "auth", "payload", "recv", "send"}
    /\ outcome' = Outcome(FALSE, NoMessage, None)
    /\ printed' = << <<"WebSocket error: ", "WebSocketException">> >>
    /\ hist' = [hist EXCEPT !.endedBy = "websocket_exception",
                            !.conn = IF pc = "connect" THEN @ + 1 ELSE @]
    /\ pc' = "done"
    /\ UNCHANGED <<pending, job_id, stderr>>
    /\ jp_unchanged

\* 532-534: connect raises OSError
jp_exception ==
    /\ impl = "jp" /\ pc = "connect"
    /\ outcome' = Outcome(FALSE, NoMessage, None)
    /\ printed' = << <<"Unexpected error: ", "OSError">> >>
    /\ hist' = [hist EXCEPT !.endedBy = "exception", !.conn = @ + 1]
    /\ pc' = "done"
    /\ UNCHANGED <<pending, job_id, stderr>>
    /\ jp_unchanged

(***************************************************************************)
(* The arguments the callers of _ws_operation_async pass: job_listen       *)
(* (311-324) runs without a spinner, without payload and without input     *)
(* handling; job_cancel, cluster_destroy and nfs_destroy pass a spinner    *)
(* and no payload; cluster_create, nfs_create, nfs_attach and nfs_detach   *)
(* pass a spinner and a payload object.  The seven of them build the       *)
(* endpoint and handle_user_input from no_input in the same two lines;     *)
(* job_cancel stands for the three without payload, cluster_create for the *)
(* four with one.                                                          *)
(***************************************************************************)
\* 817-819, 1049-1051, 1083-1085, 1344-1346, 1381-1383, 1427-1429, 1473-1475:
\* `if no_input: endpoint += "?no_input=true"`
caller_endpoint(path, ni) ==
    IF ni THEN <<path>> \o <<"?no_input=true">> ELSE <<path>>

\* input handling left on whatever no_input is
caller_handle_user_input_always(ni) == TRUE

\* 828, 1060, 1094, 1355, 1392, 1438, 1484: `handle_user_input=not no_input`
caller_handle_user_input(ni) == ~ni

Callers ==
    {[spinner |-> FALSE, payload |-> None, no_input |-> FALSE,
      endpoint |-> <<"/job/listen/{job_id}">>, handle_user_input |-> FALSE]} \cup
    { [spinner |-> TRUE, payload |-> p, no_input |-> ni,
       endpoint |-> caller_endpoint(IF p = None THEN "/job/cancel/{job_id}"
                                                ELSE "/cluster/create", ni),
       handle_user_input |-> caller_handle_user_input(ni)] :
        p \in Payloads, ni \in BOOLEAN }

(***************************************************************************)
(* safe_input and safe_confirm (22-94).  The call runs up to its return,   *)
(* its exit(1), or its input(prompt), where it waits for the terminal.     *)
(***************************************************************************)
Defaults == {None, "", "d"}
Returned(v) == [kind |-> "return", value |-> v]
Exited == [kind |-> "exit", value |-> 1]

\* 39, 81: `if no_input:`
safe_skips_input(ni) == ni

safe_unchanged ==
    UNCHANGED <<config, spinner, pending, status, msg, close, job_id, stderr,
                outcome, elsewhere>>

\* 39-56: safe_input up to input(prompt)
safe_input_call ==
    /\ impl = "safe_input" /\ pc = "call"
    /\ IF safe_skips_input(no_input)
       THEN IF default_arg # None
            THEN /\ printed' = << <<"prompt", ": ", default_arg>> >>
                 /\ result' = Returned(default_arg)
                 /\ pc' = "end"
            ELSE /\ printed' = << <<"Error: ", "prompt",
                                    " required but --no-input flag was used">> >>
                 /\ result' = Exited
                 /\ pc' = "end"
       ELSE IF ~stdin_isatty
       THEN IF default_arg # None
            THEN /\ printed' = << <<"prompt", ": ", default_arg,
                                    " (non-interactive, using default)">> >>
                 /\ result' = Returned(default_arg)
                 /\ pc' = "end"
            ELSE /\ printed' = << <<"Error: ", "prompt",
                                    " required but running in non-interactive mode">> >>
                 /\ result' = Exited
                 /\ pc' = "end"
       ELSE /\ pc' = "read"
            /\ UNCHANGED <<printed, result>>
    /\ UNCHANGED hist
    /\ safe_unchanged

\* 58-66: input(prompt) returns a line or raises EOFError
safe_input_read ==
    /\ impl = "safe_input" /\ pc = "read"
    /\ \E typed \in Lines \cup {EOF} :
          /\ hist' = [hist EXCEPT !.reads = @ + 1]
          /\ IF typed # EOF
             THEN /\ result' = Returned(typed)
                  /\ UNCHANGED printed
             ELSE IF default_arg # None
             THEN /\ printed' = << <<"\n", "prompt", ": ", default_arg,
                                     " (EOF, using default)">> >>
                  /\ result' = Returned(default_arg)
             ELSE /\ printed' = << <<"\nError: ", "prompt",
                                     " required but stdin closed">> >>
                  /\ result' = Exited
    /\ pc' = "end"
    /\ safe_unchanged

\* 81-88: safe_confirm up to input(prompt)
safe_confirm_call ==
    /\ impl = "safe_confirm" /\ pc = "call"
    /\ IF safe_skips_input(no_input)
       THEN /\ printed' = << <<"prompt", ": ", default_arg>> >>
            /\ result' = Returned(default_arg)
            /\ pc' = "end"
       ELSE IF ~stdin_isatty
       THEN /\ printed' = << <<"prompt", ": ", default_arg,
                               " (non-interactive, using default)">> >>
            /\ result' = Returned(default_arg)
            /\ pc' = "end"
       ELSE /\ pc' = "read"
            /\ UNCHANGED <<printed, result>>
    /\ UNCHANGED hist
    /\ safe_unchanged

\* 90-94: input(prompt) returns a line or raises EOFError
safe_confirm_read ==
    /\ impl = "safe_confirm" /\ pc = "read"
    /\ \E typed \in Lines \cup {EOF} :
          /\ hist' = [hist EXCEPT !.reads = @ + 1]
          /\ IF typed # EOF
             THEN /\ result' = Returned(typed)
                  /\ UNCHANGED printed
             ELSE /\ printed' = << <<"\n", "prompt", ": ", default_arg,
                                     " (EOF, using default)">> >>
                  /\ result' = Returned(default_arg)
    /\ pc' = "end"
    /\ safe_unchanged

(***************************************************************************)
(* Specification                                                           *)
(***************************************************************************)
Init ==
    /\ impl \in {"ws", "jp", "safe_input", "safe_confirm"}
    /\ IF impl = "ws"
       THEN /\ api_key \in {None, "key"}
            /\ \E c \in Callers :
                  /\ payload = c.payload
                  /\ handle_user_input = c.handle_user_input
                  /\ no_input = c.no_input
                  /\ endpoint = c.endpoint
                  /\ spinner = IF c.spinner
                               THEN Spinner_start([kind |-> "tty", spinning |-> FALSE,
                                                   text |-> "working"])
                               ELSE NoSpinner
            /\ default_arg = None
            /\ stdin_isatty = TRUE
            /\ pc = "start"
       ELSE IF impl = "jp"
       THEN /\ api_key = "key"
            /\ payload = initial_data
            /\ handle_user_input = FALSE
            /\ no_input = FALSE
            /\ endpoint = <<"/job/push">>
            /\ spinner = NoSpinner
            /\ default_arg = None
            /\ stdin_isatty = TRUE
            /\ pc = "connect"
       ELSE /\ api_key = None
            /\ payload = None
            /\ handle_user_input = FALSE
            /\ no_input \in BOOLEAN
            /\ endpoint = <<>>
            /\ spinner = NoSpinner
            \* safe_confirm's default is a string ("y" unless given)
            /\ default_arg \in IF impl = "safe_input" THEN Defaults ELSE {"y", "d"}
            /\ stdin_isatty \in BOOLEAN
            /\ pc = "call"
    /\ pending = NoSent
    /\ status = None
    /\ msg = None
    /\ close = <<>>
    /\ job_id = None
    /\ stderr = Unbound
    /\ outcome = NoOutcome
    /\ printed = <<>>
    /\ result = NoResult
    /\ NoElsewhere
    /\ hist = NoHist

Next ==
    \/ ws_start
    \/ ws_connect
    \/ ws_send_auth
    \/ ws_send_payload
    \/ ws_recv
    \/ ws_send_response
    \/ ws_connection_closed
    \/ ws_websocket_exception
    \/ ws_exception
    \/ jp_connect
    \/ jp_send_auth
    \/ jp_send_payload
    \/ jp_recv
    \/ jp_send_result
    \/ jp_connection_closed
    \/ jp_websocket_exception
    \/ jp_exception
    \/ safe_input_call
    \/ safe_input_read
    \/ safe_confirm_call
    \/ safe_confirm_read

Spec == Init /\ [][Next]_vars


(***************************************************************************)
(* The session variables while another part of the program is looked at.   *)
(***************************************************************************)
session == <<api_key, payload, handle_user_input, pending, status, msg, close,
             job_id, stderr, outcome, printed, no_input, endpoint, default_arg,
             stdin_isatty>>

NoSession ==
    /\ api_key = None /\ payload = None /\ handle_user_input = FALSE
    /\ pending = NoSent /\ status = None /\ msg = None /\ close = <<>>
    /\ job_id = None /\ stderr = Unbound /\ outcome = NoOutcome
    /\ printed = <<>> /\ no_input = FALSE /\ endpoint = <<>>
    /\ default_arg = None /\ stdin_isatty = TRUE

(***************************************************************************)
(* Spinner with its redraw threads (spinner.py).  Here spinner holds the   *)
(* object's fields and the threads it has started: threads[i] is where the *)
(* i-th thread stands in _spin, spinner_thread the index of the thread     *)
(* self.spinner_thread refers to (0 = None).  pc is the position of the    *)
(* thread that calls the methods, which is the one running the session;    *)
(* hist.line tells whether the terminal line shows the spinner.            *)
(***************************************************************************)
MaxCalls == 4
Texts == {"working", "m1"}

NewSpinner(tty) ==
    [is_tty |-> tty, spinning |-> FALSE, text |-> "working",
     spinner_thread |-> 0, threads |-> <<>>]

NoSpinnerHist ==
    [calls |-> 0,            \* calls of update_text, pause and resume
     relay |-> FALSE,        \* the pause running was made by the prompt relay
     line |-> "clear",       \* "drawn" once a redraw wrote the spinner
     wroteInRead |-> FALSE,  \* a redraw happened during the terminal read
     wroteAfterStop |-> FALSE] \* a redraw happened after stop() returned

Alive(sp) == {i \in 1..Len(sp.threads) : sp.threads[i] # "dead"}

\* threading.Thread(target=self._spin).start()
StartThread(sp) ==
    [sp EXCEPT !.spinning = TRUE,
               !.threads = Append(@, "loop"),
               !.spinner_thread = Len(sp.threads) + 1]

\* pause() that does not wait for the thread
pause_joined_at_once(sp) == TRUE

\* 71-72, 93-94: `if self.spinner_thread: self.spinner_thread.join()` returns
pause_joined(sp) ==
    IF sp.spinner_thread = 0 THEN TRUE
    ELSE sp.threads[sp.spinner_thread] = "dead"

\* resume() that starts a thread on every call on a terminal
resume_returns_without_tty_only(sp) == ~sp.is_tty

\* 84: `if self.spinning or not self.is_tty: return`
resume_returns(sp) == sp.spinning \/ ~sp.is_tty

spinner_unchanged == UNCHANGED <<session, result, elsewhere>>

\* 51-57
sp_start ==
    /\ impl = "spinner" /\ pc = "new"
    /\ spinner' = IF ~spinner.is_tty THEN spinner ELSE StartThread(spinner)
    /\ pc' = "idle"
    /\ UNCHANGED <<impl, hist>>
    /\ spinner_unchanged

\* 59-63
sp_update_text ==
    /\ impl = "spinner" /\ pc = "idle" /\ hist.calls < MaxCalls
    /\ \E new_text \in Texts : spinner' = [spinner EXCEPT !.text = new_text]
    /\ hist' = [hist EXCEPT !.calls = @ + 1]
    /\ UNCHANGED <<impl, pc>>
    /\ spinner_unchanged

\* 65-72: pause() up to the join; the prompt relay calls it before its
\* input() (helpers.py 938-939)
sp_pause ==
    /\ impl = "spinner" /\ pc = "idle" /\ hist.calls < MaxCalls
    /\ \E relay \in BOOLEAN :
          IF ~spinner.spinning
          THEN /\ pc' = IF relay THEN "read" ELSE "idle"
               /\ hist' = [hist EXCEPT !.calls = @ + 1]
               /\ UNCHANGED spinner
          ELSE /\ spinner' = [spinner EXCEPT !.spinning = FALSE]
               /\ pc' = "pause_join"
               /\ hist' = [hist EXCEPT !.calls = @ + 1, !.relay = relay]
    /\ UNCHANGED impl
    /\ spinner_unchanged

\* 72-80: the join returns and the line is cleared
sp_pause_join ==
    /\ impl = "spinner" /\ pc = "pause_join"
    /\ pause_joined(spinner)
    /\ pc' = IF hist.relay THEN "read" ELSE "idle"
    /\ hist' = [hist EXCEPT !.relay = FALSE,
                            !.line = IF spinner.is_tty THEN "clear" ELSE @]
    /\ UNCHANGED <<impl, spinner>>
    /\ spinner_unchanged

\* helpers.py 942-945: input() returns or raises
sp_read ==
    /\ impl = "spinner" /\ pc = "read"
    /\ pc' = "idle"
    /\ UNCHANGED <<impl, spinner, hist>>
    /\ spinner_unchanged

\* 82-89
sp_resume ==
    /\ impl = "spinner" /\ pc = "idle" /\ hist.calls < MaxCalls
    /\ spinner' = IF resume_returns(spinner) THEN spinner ELSE StartThread(spinner)
    /\ hist' = [hist EXCEPT !.calls = @ + 1]
    /\ UNCHANGED <<impl, pc>>
    /\ spinner_unchanged

\* 91-94: stop() up to the join
sp_stop ==
    /\ impl = "spinner" /\ pc = "idle"
    /\ spinner' = [spinner EXCEPT !.spinning = FALSE]
    /\ pc' = "stop_join"
    /\ UNCHANGED <<impl, hist>>
    /\ spinner_unchanged

\* 94-101: the join returns and the line is cleared
sp_stop_join ==
    /\ impl = "spinner" /\ pc = "stop_join"
    /\ pause_joined(spinner)
    /\ pc' = "stopped"
    /\ hist' = [hist EXCEPT !.line = IF spinner.is_tty THEN "clear" ELSE @]
    /\ UNCHANGED <<impl, spinner>>
    /\ spinner_unchanged

\* 29-42: one step of a redraw thread: the test of line 31, the writes of
\* 33-41, the sleep of 42
sp_spin ==
    /\ impl = "spinner"
    /\ \E i \in Alive(spinner) :
          LET at == spinner.threads[i]
          IN  IF at = "loop"
              THEN /\ spinner' = [spinner EXCEPT !.threads[i] =
                                      IF ~spinner.spinning THEN "dead"
                                      ELSE IF spinner.is_tty THEN "write"
                                      ELSE "sleep"]
                   /\ UNCHANGED hist
              ELSE IF at = "write"
              THEN /\ spinner' = [spinner EXCEPT !.threads[i] = "sleep"]
                   /\ hist' = [hist EXCEPT
                                 !.line = "drawn",
                                 !.wroteInRead = @ \/ pc = "read",
                                 !.wroteAfterStop = @ \/ pc = "stopped"]
              ELSE /\ spinner' = [spinner EXCEPT !.threads[i] = "loop"]
                   /\ UNCHANGED hist
    /\ UNCHANGED <<impl, pc>>
    /\ spinner_unchanged

SpinnerInit ==
    /\ impl = "spinner"
    /\ \E tty \in BOOLEAN : spinner = NewSpinner(tty)
    /\ pc = "new"
    /\ hist = NoSpinnerHist
    /\ NoSession
    /\ result = NoResult
    /\ NoElsewhere

SpinnerNext ==
    \/ sp_start
    \/ sp_update_text
    \/ sp_pause
    \/ sp_pause_join
    \/ sp_read
    \/ sp_resume
    \/ sp_stop
    \/ sp_stop_join
    \/ sp_spin

SpinnerSpec == SpinnerInit /\ [][SpinnerNext]_vars

(***************************************************************************)
(* Running a command the engine sent (helpers.py 419-484 in                *)
(* _job_push_async, 663-699 in job_pull).  process.todo is the streams the *)
(* command has yet to write a line to, in order; with background set, a    *)
(* child it left behind goes on writing after the command itself has       *)
(* exited.  A pipe holds at most PipeCap lines: a write to a full pipe     *)
(* waits.  A stream is at its end once the command has exited, nothing is  *)
(* left to write and the pipe is empty.  The lines are numbered in the     *)
(* order they are written.                                                 *)
(***************************************************************************)
MaxLines == 2
PipeCap == 1
Streams == {"stdout", "stderr"}
Scripts == UNION {[1..k -> Streams] : k \in 0..MaxLines}

NoExecHist ==
    [wrote |-> NoPipes,      \* the lines the command wrote to each stream
     timedOut |-> FALSE]     \* a join returned with its thread still running

AtEOF(s) ==
    process.exited /\ process.todo = <<>> /\ process.pipe[s] = <<>>

Built(out, err) == [kind |-> "built", stdout |-> out, stderr |-> err]

exec_unchanged == UNCHANGED <<impl, session, spinner, keepalive, fs, download>>

\* the command (or the child it left behind) writes its next line
proc_write ==
    /\ impl \in {"job_push", "job_pull"}
    /\ process.todo # <<>>
    /\ ~process.exited \/ process.background
    /\ LET s == Head(process.todo)
           n == Len(hist.wrote.stdout) + Len(hist.wrote.stderr) + 1
       IN  /\ Len(process.pipe[s]) < PipeCap
           /\ process' = [process EXCEPT !.todo = Tail(@),
                                         !.pipe[s] = Append(@, n)]
           /\ hist' = [hist EXCEPT !.wrote[s] = Append(@, n)]
    /\ UNCHANGED <<pc, reader, lines, result>>
    /\ exec_unchanged

\* the command exits: at the end of its output, or earlier when it leaves a
\* child behind
proc_exit ==
    /\ impl \in {"job_push", "job_pull"}
    /\ ~process.exited
    /\ process.background \/ process.todo = <<>>
    /\ process' = [process EXCEPT !.exited = TRUE]
    /\ UNCHANGED <<pc, reader, lines, result, hist>>
    /\ exec_unchanged

\* 444-453: one round of the loop of read_stdout
read_stdout ==
    /\ impl = "job_push" /\ reader.stdout = "run"
    /\ IF process.pipe.stdout # <<>>
       THEN /\ process' = [process EXCEPT !.pipe.stdout = Tail(@)]
            /\ lines' = [lines EXCEPT !.stdout = Append(@, Head(process.pipe.stdout))]
            /\ UNCHANGED reader
       ELSE /\ AtEOF("stdout")
            /\ reader' = [reader EXCEPT !.stdout = "done"]
            /\ UNCHANGED <<process, lines>>
    /\ UNCHANGED <<pc, result, hist>>
    /\ exec_unchanged

\* 455-467: one round of the loop of read_stderr
read_stderr ==
    /\ impl = "job_push" /\ reader.stderr = "run"
    /\ IF process.pipe.stderr # <<>>
       THEN /\ process' = [process EXCEPT !.pipe.stderr = Tail(@)]
            /\ lines' = [lines EXCEPT !.stderr = Append(@, Head(process.pipe.stderr))]
            /\ UNCHANGED reader
       ELSE /\ AtEOF("stderr")
            /\ reader' = [reader EXCEPT !.stderr = "done"]
            /\ UNCHANGED <<process, lines>>
    /\ UNCHANGED <<pc, result, hist>>
    /\ exec_unchanged

\* 477: process.wait() returns
exec_wait ==
    /\ impl = "job_push" /\ pc = "wait"
    /\ process.exited
    /\ pc' = "join_stdout"
    /\ UNCHANGED <<process, reader, lines, result, hist>>
    /\ exec_unchanged

\* 480: stdout_thread.join(timeout=1) returns, the thread finished or not
exec_join_stdout ==
    /\ impl = "job_push" /\ pc = "join_stdout"
    /\ pc' = "join_stderr"
    /\ hist' = [hist EXCEPT !.timedOut = @ \/ reader.stdout # "done"]
    /\ UNCHANGED <<process, reader, lines, result>>
    /\ exec_unchanged

\* 481-484: stderr_thread.join(timeout=1) returns and the output is joined
exec_join_stderr ==
    /\ impl = "job_push" /\ pc = "join_stderr"
    /\ pc' = "done"
    /\ hist' = [hist EXCEPT !.timedOut = @ \/ reader.stderr # "done"]
    /\ result' = Built(lines.stdout, lines.stderr)
    /\ UNCHANGED <<process, reader, lines>>
    /\ exec_unchanged

\* 684-688: `for line in process.stdout`, one line or the end of the stream
pull_read_stdout ==
    /\ impl = "job_pull" /\ pc = "read_stdout"
    /\ IF process.pipe.stdout # <<>>
       THEN /\ process' = [process EXCEPT !.pipe.stdout = Tail(@)]
            /\ lines' = [lines EXCEPT !.stdout = Append(@, Head(process.pipe.stdout))]
            /\ UNCHANGED pc
       ELSE /\ AtEOF("stdout")
            /\ pc' = "read_stderr"
            /\ UNCHANGED <<process, lines>>
    /\ UNCHANGED <<reader, result, hist>>
    /\ exec_unchanged

\* 691-696: process.stderr.read() takes what is there and returns at the end
\* of the stream
pull_read_stderr ==
    /\ impl = "job_pull" /\ pc = "read_stderr"
    /\ IF process.pipe.stderr # <<>>
       THEN /\ process' = [process EXCEPT !.pipe.stderr = Tail(@)]
            /\ lines' = [lines EXCEPT !.stderr = Append(@, Head(process.pipe.stderr))]
            /\ UNCHANGED pc
       ELSE /\ AtEOF("stderr")
            /\ pc' = "wait"
            /\ UNCHANGED <<process, lines>>
    /\ UNCHANGED <<reader, result, hist>>
    /\ exec_unchanged

\* 699-708: process.wait() returns
pull_wait ==
    /\ impl = "job_pull" /\ pc = "wait"
    /\ process.exited
    /\ pc' = "done"
    /\ result' = Built(lines.stdout, lines.stderr)
    /\ UNCHANGED <<process, reader, lines, hist>>
    /\ exec_unchanged

\* 426-474 / 668-682: Popen has returned and, in _job_push_async, the two
\* threads are started
ExecInit ==
    /\ impl \in {"job_push", "job_pull"}
    /\ \E script \in Scripts, bg \in BOOLEAN :
          process = [todo |-> script, background |-> bg, exited |-> FALSE,
                     pipe |-> NoPipes]
    /\ reader = IF impl = "job_push"
                THEN [stdout |-> "run", stderr |-> "run"]
                ELSE NoReaders
    /\ lines = NoPipes
    /\ pc = IF impl = "job_push" THEN "wait" ELSE "read_stdout"
    /\ result = NoResult
    /\ hist = NoExecHist
    /\ spinner = NoSpinner
    /\ keepalive = NoKeepalive /\ fs = {} /\ download = <<>>
    /\ NoSession

ExecNext ==
    \/ proc_write
    \/ proc_exit
    \/ read_stdout
    \/ read_stderr
    \/ exec_wait
    \/ exec_join_stdout
    \/ exec_join_stderr
    \/ pull_read_stdout
    \/ pull_read_stderr
    \/ pull_wait

ExecSpec == ExecInit /\ [][ExecNext]_vars

(***************************************************************************)
(* The keepalive of a connection opened with ping_interval=5 and           *)
(* ping_timeout=10 (helpers.py 379-381, 917-919).  The keepalive runs on   *)
(* the event loop that runs the session's coroutine, so it only runs while *)
(* the coroutine is suspended at an await (pc = "await"); input() (943,    *)
(* 945) and process.wait() (477) are plain calls that keep the loop's      *)
(* thread until they return (pc = "blocked").  The peer is alive and       *)
(* answers every ping at once.  Time is counted in seconds; work the free  *)
(* loop has to do is done before time passes.                              *)
(***************************************************************************)
ping_interval == 5
ping_timeout == 10
MaxTime == 16

NewKeepalive ==
    [now |-> 0,
     next_ping |-> ping_interval,   \* when the next ping is to be sent
     waiting |-> FALSE,             \* a ping is out and its pong not processed
     ping_at |-> 0,                 \* when that ping was sent
     pong |-> FALSE,                \* its pong has arrived at the socket
     closed |-> 0]                  \* the close code the keepalive ended with

PingDue == ~keepalive.waiting /\ keepalive.now >= keepalive.next_ping
PongUnprocessed == keepalive.waiting /\ keepalive.pong
PongLate ==
    keepalive.waiting /\ keepalive.now - keepalive.ping_at >= ping_timeout

keepalive_unchanged ==
    UNCHANGED <<impl, session, spinner, result, process, reader, lines, fs,
                download, hist>>

\* 943-945, 477: the coroutine calls input() or process.wait()
ka_block ==
    /\ impl = "keepalive" /\ pc = "await"
    /\ pc' = "blocked"
    /\ UNCHANGED keepalive
    /\ keepalive_unchanged

\* 943-945, 477: the call returns, and the coroutine reaches its next await
ka_return ==
    /\ impl = "keepalive" /\ pc = "blocked"
    /\ pc' = "await"
    /\ UNCHANGED keepalive
    /\ keepalive_unchanged

\* a second passes; the free loop and the peer have nothing left to do
ka_tick ==
    /\ impl = "keepalive" /\ pc # "closed"
    /\ keepalive.now < MaxTime
    /\ ~(keepalive.waiting /\ ~keepalive.pong)
    /\ pc = "await" => (~PingDue /\ ~PongUnprocessed /\ ~PongLate)
    /\ keepalive' = [keepalive EXCEPT !.now = @ + 1]
    /\ UNCHANGED pc
    /\ keepalive_unchanged

\* ping_interval=5: the loop sends the ping that is due
ka_ping ==
    /\ impl = "keepalive" /\ pc = "await"
    /\ PingDue
    /\ keepalive' = [keepalive EXCEPT !.waiting = TRUE, !.pong = FALSE,
                                       !.ping_at = keepalive.now]
    /\ UNCHANGED pc
    /\ keepalive_unchanged

\* the peer answers the ping
ka_pong ==
    /\ impl = "keepalive" /\ pc # "closed"
    /\ keepalive.waiting /\ ~keepalive.pong
    /\ keepalive' = [keepalive EXCEPT !.pong = TRUE]
    /\ UNCHANGED pc
    /\ keepalive_unchanged

\* the loop processes the pong and waits ping_interval for the next ping
ka_pong_processed ==
    /\ impl = "keepalive" /\ pc = "await"
    /\ PongUnprocessed
    /\ keepalive' = [keepalive EXCEPT !.waiting = FALSE, !.pong = FALSE,
                                       !.next_ping = keepalive.now + ping_interval]
    /\ UNCHANGED pc
    /\ keepalive_unchanged

\* ping_timeout=10: the loop finds no pong processed in time and closes the
\* connection with 1011; when the pong is at the socket as well, the loop
\* may come to either first
ka_timeout ==
    /\ impl = "keepalive" /\ pc = "await"
    /\ PongLate
    /\ keepalive' = [keepalive EXCEPT !.closed = 1011]
    /\ pc' = "closed"
    /\ keepalive_unchanged

KeepaliveInit ==
    /\ impl = "keepalive"
    /\ pc = "await"
    /\ keepalive = NewKeepalive
    /\ spinner = NoSpinner
    /\ result = NoResult
    /\ process = NoProcess /\ reader = NoReaders /\ lines = NoPipes
    /\ fs = {} /\ download = <<>>
    /\ hist = NoHist
    /\ NoSession

KeepaliveNext ==
    \/ ka_block
    \/ ka_return
    \/ ka_tick
    \/ ka_ping
    \/ ka_pong
    \/ ka_pong_processed
    \/ ka_timeout

KeepaliveSpec == KeepaliveInit /\ [][KeepaliveNext]_vars

(***************************************************************************)
(* download_files (helpers.py 720-802).  fs is the set of local paths that *)
(* exist; download holds the overwrite argument and, for each entry of the *)
(* download map, where its _download_file call stands.  The entries have   *)
(* different paths, so one round of the retry loop of one call is a step.  *)
(***************************************************************************)
max_retries == 3
Paths == {"a.bin", "b.bin"}
\* what one round meets: requests.get raising, a response with status 200
\* or 500, or a response whose body breaks off while it is written
Fetches == {"get raises", "200", "500", "body raises"}

NewWorker == [at |-> "run", retries |-> 0, ok |-> FALSE, got200 |-> FALSE,
              note |-> ""]

Finish(w, success, note) == [w EXCEPT !.at = "done", !.ok = success, !.note = note]

\* 773-776, 780-784: `if retries < max_retries: ... continue`, else the failure
dl_retry(w) ==
    IF w.retries < max_retries
    THEN [w EXCEPT !.retries = @ + 1]
    ELSE Finish(w, FALSE, "failed")

download_unchanged ==
    UNCHANGED <<impl, session, spinner, process, reader, lines, keepalive>>

\* 738-784: one round of `for retries in range(max_retries + 1)`
download_file ==
    /\ impl = "download_files" /\ pc = "running"
    /\ \E path \in Paths, fetch \in Fetches :
          LET w == download.files[path]
          IN  /\ w.at = "run"
              /\ IF fetch = "get raises"
                 THEN \* 740 raises: 779-784
                      /\ download' = [download EXCEPT !.files[path] = dl_retry(w)]
                      /\ UNCHANGED fs
                 ELSE IF path \in fs /\ ~download.overwrite
                 THEN \* 743-748
                      /\ download' = [download EXCEPT !.files[path] =
                                         Finish(w, TRUE, "Skipped - file exists")]
                      /\ UNCHANGED fs
                 ELSE \* 750-784: the file is opened for writing, then the
                      \* status is looked at
                      /\ fs' = fs \cup {path}
                      /\ download' = [download EXCEPT !.files[path] =
                            IF fetch = "200"
                            THEN [Finish(w, TRUE, "Success") EXCEPT !.got200 = TRUE]
                            ELSE dl_retry(w)]
    /\ UNCHANGED <<pc, result, hist>>
    /\ download_unchanged

\* 791-802: all calls have come back
download_return ==
    /\ impl = "download_files" /\ pc = "running"
    /\ \A path \in Paths : download.files[path].at = "done"
    /\ result' = Returned(\A path \in Paths : download.files[path].ok)
    /\ pc' = "returned"
    /\ UNCHANGED <<fs, download, hist>>
    /\ download_unchanged

DownloadInit ==
    /\ impl = "download_files"
    /\ pc = "running"
    /\ fs \in SUBSET Paths
    /\ \E overwrite \in BOOLEAN :
          download = [overwrite |-> overwrite,
                      files |-> [path \in Paths |-> NewWorker]]
    /\ hist = [existed |-> fs]
    /\ result = NoResult
    /\ spinner = NoSpinner
    /\ process = NoProcess /\ reader = NoReaders /\ lines = NoPipes
    /\ keepalive = NoKeepalive
    /\ NoSession

DownloadNext ==
    \/ download_file
    \/ download_return

DownloadSpec == DownloadInit /\ [][DownloadNext]_vars

(***************************************************************************)
(* Properties                                                              *)
(***************************************************************************)
Done == pc = "done"
ClosedWith(code) == hist.closed # <<>> /\ hist.closed[1] = code

\* C1 (as stated): the first frame sent is the Auth frame and the second
\* frame sent is the Payload frame, whatever the payload.
C1_AuthThenPayloadAlways ==
    /\ hist.nsent >= 1 => hist.head[1].type = "auth"
    /\ hist.nsent >= 2 => hist.head[2].type = "payload"

\* C1 (amended): the first frame sent is the Auth frame with the API key;
\* the second frame sent is the Payload frame whenever a payload was given
\* ({} included) and always in _job_push_async; with payload None no Payload
\* frame is sent and the second frame, if any, is an InputResponse.  No
\* inbound frame is received before the handshake frames are out.
C1_AuthThenPayloadIfProvided ==
    /\ hist.nsent >= 1 => hist.head[1] = AuthFrame(api_key)
    /\ hist.nsent >= 2 =>
          IF impl = "jp" \/ payload # None
          THEN hist.head[2] = PayloadFrame(payload)
          ELSE hist.head[2].type = "input_response"
    /\ hist.nrecv > 0 =>
          hist.sentBefore >= (IF impl = "jp" \/ payload # None THEN 2 ELSE 1)

\* C1 (witness): an empty payload went out second and an InputResponse followed it
C1_Witness ==
    /\ impl = "ws" /\ payload = "{}"
    /\ hist.nsent = 3
    /\ hist.head = <<AuthFrame(api_key), PayloadFrame("{}")>>
    /\ hist.last.type = "input_response"

\* C2 (as stated): every inbound frame with a command key has got exactly one
\* CommandResult by the time the next frame is received.
C2_EveryCommandFrameAnswered ==
    (pc = "recv" /\ IsJson(hist.frame) /\ hist.frame.command # Absent) =>
        /\ hist.nsent = hist.sentBefore + 1
        /\ hist.last.type = "command_result"

\* C2 (amended): in _job_push_async a frame's command is run exactly when it
\* is non-empty, its CommandResult is built after the run and is the one
\* frame sent before the next frame is received; a frame with a null or empty
\* command gets no CommandResult, _ws_operation_async runs no command and
\* sends no CommandResult, and a spawn failure while stderr was never
\* assigned ends the session without a CommandResult.
C2_NonEmptyCommandAnsweredOnce ==
    LET f == hist.frame
        ran == hist.exec # <<>>
    IN  /\ impl = "ws" =>
            /\ ~ran
            /\ hist.last.type # "command_result"
            /\ pending.type # "command_result"
        /\ (impl = "jp" /\ IsJson(f)) =>
            /\ ran <=> Truthy(f.command)
            /\ hist.nsent \in {hist.sentBefore, hist.sentBefore + 1}
            /\ ~ran => hist.nsent = hist.sentBefore
            /\ pc = "send" =>
                  /\ ran /\ hist.nsent = hist.sentBefore
                  /\ pending.type = "command_result"
                  /\ pending.command = f.command
                  /\ pending.exit_code = hist.exec[1].returncode
            /\ hist.nsent = hist.sentBefore + 1 =>
                  /\ ran
                  /\ hist.last.type = "command_result"
                  /\ hist.last.command = f.command
            /\ (pc = "recv" /\ ran) => hist.nsent = hist.sentBefore + 1
            /\ (Done /\ ran /\ hist.endedBy = "exception") =>
                  /\ hist.exec[1].raised /\ stderr = Unbound
                  /\ hist.nsent = hist.sentBefore
        /\ (impl = "jp" /\ ~IsJson(f)) => ~ran

\* C2 (witness): the second command of a session was answered before the next recv
C2_Witness ==
    /\ impl = "jp" /\ pc = "recv" /\ hist.nrecv = 2
    /\ hist.exec # <<>>
    /\ hist.sentBefore = 3 /\ hist.nsent = 4
    /\ hist.last.type = "command_result"

\* C3 (as stated): the job id is that of the first frame carrying a job_id,
\* during the session and in the outcome.
C3_FirstJobIdFrameWins ==
    impl = "jp" =>
        /\ hist.firstJobId # Absent => job_id = hist.firstJobId
        /\ (Done /\ hist.firstJobId # Absent) => outcome.job_id = hist.firstJobId

\* C3 (amended): once a non-empty job_id has been captured it never changes,
\* whatever later frames carry; an empty job_id does not count as captured
\* and is replaced by the next one received; the outcome carries the captured
\* job id when the session ends by a connection close, and None when it ends
\* by any other exception.
C3_FirstNonEmptyJobIdWins ==
    impl = "jp" =>
        /\ hist.firstTruthyJobId # Absent => job_id = hist.firstTruthyJobId
        /\ hist.firstTruthyJobId = Absent => ~Truthy(job_id)
        /\ (Done /\ hist.endedBy = "closed") => outcome.job_id = job_id
        /\ (Done /\ hist.endedBy # "closed") => outcome.job_id = None

\* C3 (witness): a second, different job_id arrived and the first one was returned
C3_Witness ==
    /\ impl = "jp" /\ Done /\ hist.endedBy = "closed"
    /\ IsJson(hist.frame) /\ hist.frame.job_id = "j2"
    /\ job_id = "j1" /\ outcome.job_id = "j1"

(***************************************************************************)
(* Text of the outcome: the pieces of the returned message and of the      *)
(* lines the termination handler printed.                                  *)
(***************************************************************************)
Mentions(text, piece) == \E i \in 1..Len(text) : text[i] = piece
Says(piece) ==
    \/ Mentions(outcome.message, piece)
    \/ \E l \in 1..Len(printed) : Mentions(printed[l], piece)
CloseCodeOf == hist.closed[1]
CloseReasonOf == hist.closed[2]

\* C4 (as stated): a close with code 1000 gives success unless a frame with
\* status "error" was received, also when no status frame was received.
C4_NormalCloseIsSuccessUnlessError ==
    (Done /\ ClosedWith(NormalClosure) /\ ~hist.sawError) => outcome.success = TRUE

\* C4 (amended): in _job_push_async a close with code 1000 always gives
\* success with the captured job id, also after a frame with status "error"
\* and also without any status frame; in _ws_operation_async a close with
\* code 1000 always gives failure with the unexpected-end message followed by
\* the close code (and the reason, if any), because no terminal status is
\* ever on record when an await raises.
C4_NormalCloseByImplementation ==
    (Done /\ ClosedWith(NormalClosure)) =>
        IF impl = "jp"
        THEN outcome = Outcome(TRUE, NoMessage, job_id)
        ELSE /\ status \notin {"success", "error"}
             /\ outcome.success = FALSE
             /\ outcome.message =
                   <<unexpected_end_message, "\nClose code: ", "1000">> \o
                   (IF CloseReasonOf # "" THEN <<", reason: ", CloseReasonOf>>
                    ELSE <<>>)

\* C4 (witness): job push: status "error" was received, the close was normal, the outcome
\* is success with the job id
C4_Witness ==
    /\ impl = "jp" /\ Done /\ ClosedWith(NormalClosure)
    /\ hist.sawError
    /\ outcome.success = TRUE /\ outcome.job_id = "j1"

\* C5 (as stated): a close with code 1006 gives failure, and the user is told
\* that the connection was lost and to check the status with a listing
\* command.
C5_AbnormalCloseSaysConnectionLost ==
    (Done /\ ClosedWith(AbnormalClosure)) =>
        /\ outcome.success = FALSE
        /\ Says("Connection lost")
        /\ Says("tp job list")

\* C5 (amended): in _job_push_async a close with code 1006 gives failure with
\* the captured job id, after printing that the connection was lost and that
\* the status is to be checked with `tp job list`; in _ws_operation_async it
\* gives failure with the message "Connection closed: code=1006, reason=No
\* reason provided", which has neither the words nor the hint.
C5_AbnormalCloseByImplementation ==
    (Done /\ ClosedWith(AbnormalClosure)) =>
        /\ outcome.success = FALSE
        /\ IF impl = "jp"
           THEN /\ outcome.job_id = job_id
                /\ Len(printed) = 2
                /\ Mentions(printed[1], "Connection lost")
                /\ Mentions(printed[2], "tp job list")
           ELSE /\ outcome.message = <<"Connection closed: code=", "1006",
                                       ", reason=", "No reason provided">>
                /\ ~Says("Connection lost") /\ ~Says("tp job list")

\* C5 (witness): job push lost its connection before any frame arrived
C5_Witness ==
    /\ impl = "jp" /\ Done /\ ClosedWith(AbnormalClosure)
    /\ hist.nrecv = 0
    /\ Says("Connection lost")

\* The three classes of the close-code table, and the class an outcome shows.
SpecCloseClass(code) ==
    IF code = 1000 THEN "success"
    ELSE IF code = 1006 THEN "abnormal-unknown"
    ELSE "explicit-failure"
ObservedCloseClass ==
    IF outcome.success THEN "success"
    ELSE IF Says("Connection lost") THEN "abnormal-unknown"
    ELSE "explicit-failure"

\* C6 (as stated): every close code falls in exactly one of success (1000),
\* abnormal-unknown (1006) and explicit failure (the rest), the same in both
\* session implementations.
C6_SameThreeClassesEverywhere ==
    (Done /\ hist.closed # <<>>) => ObservedCloseClass = SpecCloseClass(CloseCodeOf)

\* C6 (amended): each implementation classifies every close code in exactly
\* one way, but not the same way: _job_push_async has the three classes
\* success (1000), connection lost (1006) and "Job connection closed" with
\* the code (any other); _ws_operation_async has two, the unexpected-end
\* failure (1000) and the "Connection closed" failure with code and reason
\* (any other code, 1006 included).
C6_ClassesByImplementation ==
    (Done /\ hist.closed # <<>>) =>
        IF impl = "jp"
        THEN /\ outcome.success <=> CloseCodeOf = 1000
             /\ Says("Connection lost") <=> CloseCodeOf = 1006
             /\ Says("Job connection closed, code = ") <=> CloseCodeOf \notin {1000, 1006}
             /\ Says("Job connection closed, code = ") => Says(ToString(CloseCodeOf))
        ELSE /\ outcome.success = FALSE
             /\ outcome.message[1] = unexpected_end_message <=> CloseCodeOf = 1000
             /\ outcome.message[1] = "Connection closed: code=" <=> CloseCodeOf # 1000
             /\ Says(ToString(CloseCodeOf))

\* C6 (witness): a 1006 close in _ws_operation_async reported like any other close code
C6_Witness ==
    /\ impl = "ws" /\ Done /\ ClosedWith(AbnormalClosure)
    /\ outcome.message[1] = "Connection closed: code="
    /\ hist.nrecv > 0

\* C7 (as stated): a frame with status success or error is the last frame
\* processed: the session is over, nothing was run or sent for it or after
\* it; and the loop is left on these two status values only.
C7_TerminalStatusEndsLoop ==
    /\ ~hist.termBefore
    /\ IsTerminalFrame(hist.frame) =>
          Done /\ hist.nsent = hist.sentBefore /\ hist.exec = <<>>
    /\ hist.endedBy = "break" => IsTerminalFrame(hist.frame)

\* C7 (amended): in _ws_operation_async a frame with status success or error
\* is the last frame processed: the loop is left at once, nothing is read,
\* run or sent for it or after it, and no other status value leaves the loop.
\* _job_push_async never leaves its loop on a status: it ends only by a
\* closed connection or an exception.
C7_TerminalStatusEndsWsLoop ==
    /\ impl = "ws" =>
          /\ ~hist.termBefore
          /\ IsTerminalFrame(hist.frame) =>
                /\ Done /\ hist.endedBy = "break"
                /\ hist.nsent = hist.sentBefore
                /\ hist.reads = 0 /\ hist.exec = <<>>
          /\ hist.endedBy = "break" => IsTerminalFrame(hist.frame)
    /\ impl = "jp" => hist.endedBy # "break"

\* C7 (witness): status "error" on the second frame ended a _ws_operation_async session
C7_Witness ==
    /\ impl = "ws" /\ Done /\ hist.endedBy = "break"
    /\ hist.nrecv = 2 /\ hist.frame.status = "error"
    /\ hist.frame.command = "c1"
    /\ hist.nsent = hist.sentBefore

\* Scenario A: informational frames only, then a success frame with a message
\* and a job_id, then the end of the connection.
ScenarioA ==
    /\ Done /\ hist.nrecv >= 1 /\ hist.infoOnly
    /\ IsJson(hist.frame)
    /\ hist.frame.status = "success"
    /\ hist.frame.message # Absent
    /\ hist.frame.job_id # Absent
    /\ hist.frame.command = Absent
    /\ IF impl = "ws" THEN hist.endedBy = "break" ELSE ClosedWith(NormalClosure)

\* C8 (as stated): Scenario A ends in success with the frame's message and
\* the frame's job id.
C8_ScenarioAMessageAndJobId ==
    ScenarioA =>
        /\ outcome.success = TRUE
        /\ outcome.message = Str(hist.frame.message)
        /\ outcome.job_id = hist.frame.job_id

\* C8 (amended): Scenario A ends in success.  _ws_operation_async returns no
\* job id; with a spinner it returns the frame's message (the success default
\* if that message is empty) after showing it through the spinner, without a
\* spinner it returns the empty message after printing a non-empty one.
\* _job_push_async returns the frame's job id and no message, the message
\* having been printed.
C8_ScenarioAByImplementation ==
    ScenarioA =>
        LET m == hist.frame.message
        IN  /\ outcome.success = TRUE
            /\ IF impl = "ws"
               THEN /\ outcome.job_id = Absent
                    /\ IF spinner.kind # "none"
                       THEN /\ outcome.message = Str(Or(m, success_message))
                            /\ Truthy(m) => spinner.text = m /\ hist.shown = "spinner"
                       ELSE /\ outcome.message = <<>>
                            /\ Truthy(m) => hist.shown = "print"
               ELSE /\ outcome.message = NoMessage
                    /\ outcome.job_id = hist.frame.job_id
                    /\ hist.shown = "print"

\* C8 (witness): job_listen's session (no spinner): a message frame, then success with a
\* message and a job id
C8_Witness ==
    /\ ScenarioA /\ impl = "ws" /\ spinner.kind = "none"
    /\ hist.nrecv = 2
    /\ hist.frame.message = "m1" /\ hist.frame.job_id = "j1"
    /\ outcome.message = <<>>

\* C9: a frame that is not JSON ends the session at once with a failure that
\* reports the decoding error; nothing is read, run or sent for it, and no
\* frame is received after it.
C9_NonJsonFrameAborts ==
    hist.frame = BadFrame =>
        /\ Done /\ hist.endedBy = "exception"
        /\ outcome.success = FALSE
        /\ Says("Unexpected error: ") /\ Says("JSONDecodeError")
        /\ hist.nsent = hist.sentBefore
        /\ pending = NoSent
        /\ hist.reads = 0 /\ hist.exec = <<>>

\* C9 (witness): the second frame of a session was not JSON
C9_Witness ==
    /\ hist.frame = BadFrame /\ hist.nrecv = 2 /\ Done
    /\ hist.nsent = hist.sentBefore

Ran == impl = "jp" /\ hist.exec # <<>>

\* the CommandResult built for the last frame, while it waits to be sent or
\* once it is the last frame sent
ResultBuilt == pc = "send" \/ hist.nsent = hist.sentBefore + 1
TheResult == IF pc = "send" THEN pending ELSE hist.last

\* C11 (as stated): a spawn failure or a nonzero exit of a dispatched command
\* does not end the session: a CommandResult is built and sent (spawn
\* failure: exit_code 1, empty command_stdout, the exception text as
\* command_stderr; nonzero exit: that exit code and the captured output), the
\* loop goes on, and the failure is not raised out of the executor.
C11_LocalFailureIsReported ==
    (Ran /\ (hist.exec[1].raised \/ hist.exec[1].returncode # 0)) =>
        LET x == hist.exec[1]
            expected ==
                IF x.raised
                THEN CommandResult(hist.frame.command, 1, "", x.error)
                ELSE CommandResult(hist.frame.command, x.returncode,
                                   x.stdout, x.stderr)
        IN  /\ hist.endedBy # "exception"
            /\ pc \in {"send", "recv", "done"}
            /\ ResultBuilt => TheResult = expected
            /\ pc = "recv" => ResultBuilt

\* C15 (as stated): the CommandResult of an executed command has type
\* "command_result", the command string of the frame that triggered it, the
\* exit code of that very execution and the stdout and stderr captured from
\* that very execution, never text left over from an earlier command (for a
\* spawn that failed nothing was captured: empty, or the exception text).
C15_ResultOfThatVeryExecution ==
    (Ran /\ ResultBuilt) =>
        LET x == hist.exec[1]
            cr == TheResult
        IN  /\ cr.type = "command_result"
            /\ cr.command = hist.frame.command
            /\ cr.exit_code = x.returncode
            /\ cr.command_stdout = x.stdout
            /\ IF x.raised
               THEN cr.command_stderr \in {"", x.error}
               ELSE cr.command_stderr = x.stderr

(***************************************************************************)
(* The status local of _ws_operation_async                                 *)
(***************************************************************************)
TerminalStatuses == {"success", "error"}

\* C12 (as stated): status starts at none and only ever changes to success or
\* error; once set it is not reset to none nor replaced by a non-terminal
\* value, and a session whose connection died before a terminal status ends
\* with status none.
C12_StatusOnlyMovesForward ==
    /\ [](status \in {None} \cup TerminalStatuses)
    /\ [][(status # None) => (status' = status)]_vars
    /\ []((Done /\ hist.endedBy = "closed" /\ status \notin TerminalStatuses)
              => status = None)

\* C12 (amended): status is the status of the last frame decoded (none when
\* that frame has no status key), so a non-terminal value such as "input" or
\* "pending" is replaced by whatever the next frame carries; a terminal value
\* is never changed, because the loop stops on it.  When the connection dies
\* before a terminal status, status is none or the last non-terminal value,
\* and the outcome is the unexpected-end failure or the close failure in
\* both cases.  _job_push_async keeps no status.
C12_TerminalStatusIsFinal ==
    /\ []((impl = "ws" /\ IsJson(hist.frame)) => status = Get(hist.frame.status))
    /\ [](hist.nrecv = 0 => status = None)
    /\ [](impl = "jp" => status = None)
    /\ [][(status \in TerminalStatuses) => (status' = status)]_vars
    /\ [](status \in TerminalStatuses => (Done /\ hist.endedBy = "break"))
    /\ []((impl = "ws" /\ Done /\ hist.endedBy = "closed") =>
            /\ status \notin TerminalStatuses
            /\ outcome.success = FALSE
            /\ outcome.message \in
                  {ws_final(None, msg, spinner, close).message,
                   ws_closed_message(hist.closed[1], hist.closed[2])})

\* C12 (witness): the second frame set status to "pending" and the
\* connection then closed normally, before any terminal status
C12_Witness ==
    /\ impl = "ws" /\ Done /\ hist.endedBy = "closed" /\ ClosedWith(NormalClosure)
    /\ hist.nrecv = 2
    /\ status = "pending"
    /\ ~hist.termBefore
    /\ outcome = ws_final(None, msg, spinner, close)

(***************************************************************************)
(* Failures                                                                *)
(***************************************************************************)
\* the session was ended by a failure: a missing key, an exception at an
\* await or in the handling of a frame, or a close other than the normal one
Failed ==
    \/ hist.endedBy \in {"no_key", "exception", "websocket_exception"}
    \/ hist.endedBy = "closed" /\ ~ClosedWith(NormalClosure)

C14_InputFrameIgnoredWhenDisabled ==
    (impl = "ws" /\ ~handle_user_input /\ IsJson(hist.frame)
        /\ hist.frame.status = "input") =>
        LET m == Get(hist.frame.message)
        IN  /\ hist.reads = 0 /\ hist.line = None
            /\ hist.nsent = hist.sentBefore /\ pending = NoSent
            /\ hist.shown = IF ~Truthy(m) THEN "none"
                            ELSE IF spinner.kind # "none" THEN "spinner" ELSE "print"
            /\ (Truthy(m) /\ spinner.kind # "none") => spinner.text = m
            /\ msg = m
            /\ pc \in {"recv", "done"}
            /\ Done =>
                  /\ hist.endedBy \in {"closed", "websocket_exception"}
                  /\ ClosedWith(NormalClosure) =>
                        outcome = ws_final(None, m, spinner, close)
                  /\ (hist.endedBy = "closed" /\ ~ClosedWith(NormalClosure)) =>
                        outcome = Outcome(FALSE,
                                      ws_closed_message(CloseCodeOf, CloseReasonOf),
                                      Absent)
                  /\ hist.endedBy = "websocket_exception" =>
                        outcome = ws_websocket_error("WebSocketException")

\* C14 (witness): job_listen's session got "input" with the message "m1" as
\* its second frame, printed it, and ended with a normal close
C14_Witness ==
    /\ impl = "ws" /\ ~handle_user_input /\ spinner.kind = "none"
    /\ hist.nrecv = 2 /\ IsJson(hist.frame)
    /\ hist.frame.status = "input" /\ hist.frame.message = "m1"
    /\ hist.shown = "print" /\ hist.reads = 0
    /\ Done /\ ClosedWith(NormalClosure)
    /\ outcome.message = <<unexpected_end_message, "\nClose code: ", "1000">>

(***************************************************************************)
(* Terminal output of a command: a write is <<prefix, text>>; the reader   *)
(* threads write the bare line, the summary after completion prefixes it.  *)
(***************************************************************************)
Writes == hist.term.stdout \o hist.term.stderr
LiveCount(text) ==
    Cardinality({i \in 1..Len(Writes) : Writes[i] = <<"", text>>})
AfterCount(text) ==
    Cardinality({i \in 1..Len(Writes) :
                    Writes[i][2] = text /\ Writes[i][1] # ""})

\* C16 (as stated): each line a spawned command wrote is shown on the
\* terminal at most once: live if and only if command_show_stdout is true,
\* once after completion if and only if it is not and the exit code is
\* nonzero, and not at all when it is not and the exit code is 0.
C16_OutputShownAtMostOnce ==
    (Ran /\ ~hist.exec[1].raised) =>
        LET x == hist.exec[1]
            show == hist.frame.command_show_stdout = JsonTrue
        IN  \A text \in {x.stdout, x.stderr, x.late} \ {""} :
                /\ LiveCount(text) + AfterCount(text) <= 1
                /\ LiveCount(text) = 1 <=> show
                /\ AfterCount(text) = 1 <=> (~show /\ x.returncode # 0)
                /\ (~show /\ x.returncode = 0) =>
                      LiveCount(text) + AfterCount(text) = 0

(***************************************************************************)
(* The message returned by _ws_operation_async                             *)
(***************************************************************************)
\* the session ended on a frame with a terminal status
EndedOnTerminalStatus == impl = "ws" /\ Done /\ hist.endedBy = "break"

\* C17: when _ws_operation_async ends on a terminal status with a spinner
\* attached, the returned message is the message of that last frame when it
\* has a non-empty one, and otherwise the default of the operation: the
\* success default for success, the error default for error; the message of
\* a frame with status "error" is returned as it was received, and a message
\* of an earlier frame is not returned.
C17_FinalMessageOrDefault ==
    (EndedOnTerminalStatus /\ spinner.kind # "none") =>
        LET m == Get(hist.frame.message)
            default == IF status = "success" THEN success_message ELSE error_message
        IN  /\ status = hist.frame.status /\ status \in TerminalStatuses
            /\ outcome.success = (status = "success")
            /\ outcome.message = IF Truthy(m) THEN <<m>> ELSE <<default>>

\* C17 (witness): the first frame carried the message "m1", the second one
\* status "error" and no message: the error default was returned
C17_Witness ==
    /\ EndedOnTerminalStatus /\ spinner.kind # "none" /\ hist.nrecv = 2
    /\ status = "error" /\ hist.frame.message = Absent
    /\ spinner.text = "m1"
    /\ outcome = Outcome(FALSE, <<error_message>>, Absent)

\* how often the user gets to see the last frame's message m: printed in the
\* loop, and printed by the caller when it comes back as the returned message
TimesShown(m) ==
    (IF hist.shown = "print" THEN 1 ELSE 0)
        + (IF Done /\ outcome.message = <<m>> THEN 1 ELSE 0)

\* C18: without a spinner every non-empty message of an inbound frame is
\* printed once in the loop, and the message returned on a terminal status is
\* empty, so that the caller printing the returned message shows no server
\* message a second time.
C18_PrintedOnceWithoutSpinner ==
    (impl = "ws" /\ spinner.kind = "none" /\ IsJson(hist.frame)
        /\ ~ws_is_input_request(handle_user_input, Get(hist.frame.status))) =>
        LET m == Get(hist.frame.message)
        IN  /\ Truthy(m) => (hist.shown = "print" /\ TimesShown(m) = 1)
            /\ ~Truthy(m) => hist.shown = "none"
            /\ EndedOnTerminalStatus => outcome.message = <<>>

\* C18 (witness): job_listen's session printed "m1" of its second frame,
\* which had status "error", and returned an empty message
C18_Witness ==
    /\ EndedOnTerminalStatus /\ spinner.kind = "none" /\ hist.nrecv = 2
    /\ hist.frame.message = "m1" /\ status = "error"
    /\ hist.shown = "print"
    /\ outcome = Outcome(FALSE, <<>>, Absent)

\* C19: a close with a code other than 1000 and 1006 is a failure whose text,
\* returned by _ws_operation_async and printed by _job_push_async, holds the
\* numeric close code, and the reason whenever the reason is not empty.
C19_OtherCloseCodesAreReported ==
    (Done /\ hist.endedBy = "closed"
        /\ CloseCodeOf \notin {NormalClosure, AbnormalClosure}) =>
        /\ outcome.success = FALSE
        /\ Says(ToString(CloseCodeOf))
        /\ CloseReasonOf # "" => Says(CloseReasonOf)
        /\ impl = "ws" => printed = <<>> /\ Mentions(outcome.message, ToString(CloseCodeOf))
        /\ impl = "jp" => outcome.message = NoMessage

\* C19 (witness): /job/push closed with 1011 and the reason "bye" after a
\* frame; both were printed
C19_Witness ==
    /\ impl = "jp" /\ Done /\ hist.closed = <<1011, "bye">> /\ hist.nrecv = 1
    /\ printed = << <<"Job connection closed, code = ", "1011">>, <<"bye">> >>
    /\ outcome.success = FALSE

(***************************************************************************)
(* One connection, one pass                                                *)
(***************************************************************************)
\* C20: a session calls websockets.connect at most once and sends only on
\* the connection it opened; the Auth frame is sent once, as the first
\* frame, and the Payload frame at most once, as the second; once the
\* session has ended, by a close or by any failure, it takes no further
\* step: no reconnect, no send, no receive.
C20_OneConnectionOnePass ==
    /\ [](hist.conn <= 1)
    /\ []((hist.nsent > 0 \/ hist.nrecv > 0) => hist.conn = 1)
    /\ [](hist.nsent > 1 => hist.last.type # "auth")
    /\ [](hist.nsent > 2 => hist.last.type # "payload")
    /\ [](hist.endedBy # "none" => Done)
    /\ [][~Done]_vars

\* C20 (witness): the connection was lost (1006) after the handshake and two
\* frames; the session ended with its one connection
C20_Witness ==
    /\ Done /\ hist.endedBy = "closed" /\ ClosedWith(AbnormalClosure)
    /\ hist.conn = 1 /\ hist.nsent = 2 /\ hist.nrecv = 2
    /\ hist.head[1].type = "auth" /\ hist.head[2].type = "payload"

(***************************************************************************)
(* Frames with several keys                                                *)
(***************************************************************************)
\* C21 (as stated): every recognized key of a frame is handled, whatever
\* other keys the frame carries: a non-empty message is displayed (or used
\* as the prompt of the read), a non-empty command is run, and a terminal
\* status takes effect once the command is answered, so that no further
\* frame is awaited after it.
C21_EveryKeyHandled ==
    IsJson(hist.frame) =>
        /\ Truthy(hist.frame.message) => (hist.shown # "none" \/ hist.reads = 1)
        /\ Truthy(hist.frame.command) => hist.exec # <<>>
        /\ hist.frame.status \in TerminalStatuses => pc # "recv"

\* C21 (amended): _job_push_async handles job_id, message and command of one
\* frame together: the message is printed whenever the key is present, also
\* with a command, and the command is run exactly when it is non-empty; it
\* never reads status, so a terminal status beside a command (or alone) has
\* no effect and the loop goes on.  _ws_operation_async handles status and
\* message only: a non-empty message is displayed, or is the prompt of the
\* read for an input request; command and job_id are ignored, no command is
\* run and no job id kept.
C21_KeysHandledByImplementation ==
    IsJson(hist.frame) =>
        LET f == hist.frame
        IN  /\ impl = "jp" =>
                /\ hist.shown = IF f.message # Absent THEN "print" ELSE "none"
                /\ Truthy(f.command) <=> hist.exec # <<>>
                /\ Truthy(f.job_id) => Truthy(job_id)
                /\ status = None /\ hist.endedBy # "break"
                /\ (pc = "recv" /\ Truthy(f.command)) =>
                      (hist.nsent = hist.sentBefore + 1
                          /\ hist.last.type = "command_result")
            /\ impl = "ws" =>
                /\ status = Get(f.status)
                /\ Truthy(f.message) =>
                      IF ws_is_input_request(handle_user_input, Get(f.status))
                      THEN hist.reads = 1 /\ hist.shown = "none"
                      ELSE hist.shown # "none"
                /\ f.status \in TerminalStatuses => hist.endedBy = "break"
                /\ hist.exec = <<>> /\ job_id = None

\* C21 (witness): /job/push got one frame with a message, a command and
\* status "success": the message was printed, the command run and answered,
\* and the session is receiving again
C21_Witness ==
    /\ impl = "jp" /\ pc = "recv" /\ IsJson(hist.frame)
    /\ hist.frame.message = "m1" /\ hist.frame.command = "c1"
    /\ hist.frame.status = "success"
    /\ hist.shown = "print" /\ hist.exec # <<>>
    /\ hist.last.type = "command_result" /\ hist.nsent = hist.sentBefore + 1

\* C25: a frame whose command is null or the empty string spawns nothing and
\* gets no CommandResult; the session goes on to the next frame, and ends
\* only by a close or a WebSocket error, never because of that frame.
C25_EmptyCommandIsSkipped ==
    (IsJson(hist.frame) /\ hist.frame.command \in {None, ""}) =>
        /\ hist.exec = <<>>
        /\ hist.term = [stdout |-> <<>>, stderr |-> <<>>]
        /\ pending = NoSent
        /\ hist.nsent = hist.sentBefore
        /\ pc \in {"recv", "done"}
        /\ Done => hist.endedBy \in {"closed", "websocket_exception"}
        /\ stderr = Unbound \/ hist.nrecv > 1

\* C25 (witness): the second frame of /job/push had a null command; no
\* command has been run or answered and the session awaits a third frame
C25_Witness ==
    /\ impl = "jp" /\ pc = "recv" /\ hist.nrecv = 2
    /\ IsJson(hist.frame) /\ hist.frame.command = None
    /\ stderr = Unbound /\ hist.nsent = 2 /\ hist.exec = <<>>

\* C26: a frame whose status is neither success, error nor input ("pending")
\* does not end the session of _ws_operation_async and is no error: its
\* message, if any, is displayed, the session goes back to receiving, and
\* when it ends by a close or a WebSocket error its outcome is the one a
\* frame without status would have led to; _job_push_async ignores it.
C26_UnknownStatusContinues ==
    (IsJson(hist.frame) /\ hist.frame.status = "pending") =>
        LET m == Get(hist.frame.message)
        IN  /\ hist.endedBy \notin {"break", "exception"} \/ Ran
            /\ hist.reads = 0
            /\ impl = "ws" =>
                /\ hist.shown = IF ~Truthy(m) THEN "none"
                                ELSE IF spinner.kind # "none" THEN "spinner"
                                ELSE "print"
                /\ pc \in {"recv", "done"}
                /\ pending = NoSent /\ hist.nsent = hist.sentBefore
                /\ ClosedWith(NormalClosure) =>
                      outcome = ws_final(None, m, spinner, close)
                /\ (hist.endedBy = "closed" /\ ~ClosedWith(NormalClosure)) =>
                      outcome = Outcome(FALSE,
                                    ws_closed_message(CloseCodeOf, CloseReasonOf),
                                    Absent)

\* C26 (witness): the second frame had status "pending" and the message
\* "m1", shown on the spinner; the session is receiving again
C26_Witness ==
    /\ impl = "ws" /\ pc = "recv" /\ hist.nrecv = 2
    /\ IsJson(hist.frame) /\ hist.frame.status = "pending"
    /\ hist.frame.message = "m1"
    /\ hist.shown = "spinner" /\ spinner.text = "m1"

\* C30: with no_input true nothing waits for the terminal: safe_input and
\* safe_confirm never reach input() and end with the default returned (or,
\* safe_input without a default, with exit(1)); the streaming operations run
\* their session with handle_user_input false and the endpoint suffixed with
\* ?no_input=true, and whatever frame arrives, an input request included, no
\* line is read and no response is sent for it.
C30_NoInputNeverReads ==
    no_input =>
        /\ hist.reads = 0 /\ hist.line = None
        /\ pc # "read"
        /\ (impl \in {"safe_input", "safe_confirm"} /\ pc = "end") =>
              result = IF default_arg # None THEN Returned(default_arg) ELSE Exited
        /\ impl = "ws" =>
              /\ ~handle_user_input
              /\ Len(endpoint) = 2 /\ endpoint[2] = "?no_input=true"
              /\ hist.last.type # "input_response"
              /\ hist.nrecv > 0 =>
                    (pending = NoSent /\ hist.nsent = hist.sentBefore)

\* C30 (witness): cluster_create --no-input got an input request as its
\* first frame, showed its message on the spinner and receives again
C30_Witness ==
    /\ impl = "ws" /\ no_input /\ payload = "{spec}"
    /\ endpoint = <<"/cluster/create", "?no_input=true">>
    /\ pc = "recv" /\ hist.nrecv = 1
    /\ IsJson(hist.frame) /\ hist.frame.status = "input"
    /\ hist.frame.message = "m1" /\ hist.shown = "spinner"
    /\ hist.reads = 0 /\ hist.nsent = 2

\* C22: while the prompt relay's terminal read is in progress no redraw
\* thread is alive, the line is erased, spinning is false, and no redraw is
\* ever written between the start of the read and its return.
C22_NoRedrawDuringRead ==
    /\ ~hist.wroteInRead
    /\ pc = "read" =>
          /\ Alive(spinner) = {}
          /\ ~spinner.spinning
          /\ hist.line = "clear"

\* C22 (witness): on a terminal the spinner had drawn its line; the prompt
\* relay paused it and is reading, the one thread started is dead
C22_Witness ==
    /\ impl = "spinner" /\ pc = "read" /\ spinner.is_tty
    /\ spinner.threads = <<"dead">> /\ hist.line = "clear"
    /\ hist.calls = 1

\* C28: between start() and stop() on a terminal at most one redraw thread
\* is alive, whatever update_text, pause and resume calls are made; once
\* stop() has returned no thread is alive and nothing more is drawn; and a
\* thread is only ever started while spinning is false.
C28_AtMostOneThread ==
    /\ [](/\ Cardinality(Alive(spinner)) <= 1
          /\ pc = "stopped" => (Alive(spinner) = {} /\ hist.line = "clear")
          /\ ~hist.wroteAfterStop
          /\ spinner.spinning => Alive(spinner) # {})
    /\ [][(Len(spinner.threads') > Len(spinner.threads)) =>
            (~spinner.spinning /\ Alive(spinner) = {})]_vars

\* C28 (witness): after pause, resume and a second resume on a terminal the
\* second thread is the only one alive, and stop() has not been called
C28_Witness ==
    /\ impl = "spinner" /\ pc = "idle" /\ spinner.is_tty
    /\ hist.calls = 3 /\ spinner.spinning
    /\ Len(spinner.threads) = 2 /\ Alive(spinner) = {2}

\* C23: the stdout and stderr _job_push_async reports for a command are all
\* the lines the command wrote to each stream, in order: none is still in a
\* pipe, or yet to be written, when the output is built.
C23_NoTrailingOutputLost ==
    (impl = "job_push" /\ pc = "done") =>
        /\ result.stdout = hist.wrote.stdout
        /\ result.stderr = hist.wrote.stderr

\* C24: running a command never comes to a standstill before its output is
\* built, in _job_push_async and in job_pull: as long as it is not built,
\* the command, a reader or the waiting thread can take a step.
C24_NoPipeDeadlock ==
    (impl \in {"job_push", "job_pull"} /\ pc # "done") => ENABLED ExecNext

\* C27: the keepalive is serviced all through the session, the terminal read
\* and the process-wait included: no ping is overdue, no pong that has
\* arrived is left unprocessed while time passes, and the connection to a
\* peer that is alive is never closed for a keepalive timeout.
C27_KeepaliveServiced ==
    impl = "keepalive" =>
        /\ ~(~keepalive.waiting /\ keepalive.now > keepalive.next_ping)
        /\ ~(PongUnprocessed /\ keepalive.now > keepalive.ping_at)
        /\ keepalive.closed = 0

\* C29: download_files returns True only if every file of the download map
\* was there before the call (with overwrite false) or was fetched with
\* status 200, within at most 4 attempts; a file that was not there and was
\* never fetched with 200 makes the result False.
C29_TrueOnlyIfPresentOrFetched ==
    impl = "download_files" =>
        /\ \A path \in Paths : download.files[path].retries <= max_retries
        /\ (pc = "returned" /\ result = Returned(TRUE)) =>
              \A path \in Paths :
                  \/ download.files[path].got200
                  \/ path \in hist.existed /\ ~download.overwrite
====
